---- MODULE Spec2Model ----
(***************************************************************************)
(* Model of the live camera streaming subsystem of OpticMCP                *)
(* (src/src/optic_mcp/stream.py): StreamServer, its capture thread and its *)
(* HTTP listener thread, and the StreamManager registry with start_stream, *)
(* stop_stream, list_streams and stop_all.                                 *)
(*                                                                         *)
(* Caller threads run the manager's methods step by step; a step ends      *)
(* where the Python code can be preempted with a visible effect (between   *)
(* two statements that read or write the registry, around a sleep, around  *)
(* a blocking wait).  Capture threads and listener threads are separate    *)
(* processes.  Ports are those of one POSIX host: a bind on a port that    *)
(* has a listening socket fails.  A StreamServer holds its listening       *)
(* socket from its construction on, so at most one StreamServer object     *)
(* exists per port, and the objects are identified by their port.          *)
(*                                                                         *)
(* Two further specifications look inside the servers.  SpecStream is one  *)
(* StreamServer with its frame slot, its capture loop, its single-threaded *)
(* HTTP listener and the clients of that listener.  SpecDash is the        *)
(* dashboard: the module-level singleton, its request handler and the      *)
(* manager it calls.                                                       *)
(***************************************************************************)
EXTENDS Integers, Sequences, FiniteSets, TLC

\* ------------------------------------------------------------------ bounds
NumCameras == 2
NumPorts == 2
\* Calls each thread may begin when two threads call concurrently.
MaxConcCalls == 2
\* Frames the capture loop stores, and clients that connect to one server.
MaxFrames == 3
NumClients == 2
\* Ports a dashboard is started on, and calls made while a dashboard is looked at.
NumDashPorts == 2
MaxDashCalls == 2
\* POST requests that make the dashboard's handler call the manager.
MaxDashPosts == 1

BasePort == 8080
DashBasePort == 9000

Cameras == 0 .. (NumCameras - 1)
Ports == BasePort .. (BasePort + NumPorts - 1)
Callers == {1, 2}
Clients == 1 .. NumClients
DashPorts == DashBasePort .. (DashBasePort + NumDashPorts - 1)

VARIABLES
    streams,    \* StreamManager._streams: dict in insertion order, <<[idx, srv]>>
    servers,    \* the StreamServer object that holds each port, if any
    pc,         \* position of each caller thread
    arg,        \* arguments of the call a caller is in
    loc,        \* locals of the call a caller is in
    pre,        \* registry content when the caller's call began
    ret,        \* what the caller's last finished call returned or raised
    budget,     \* calls each thread may still begin (negative: unlimited)
    ss,         \* one StreamServer seen from inside: flag, frame slot, lock, threads
    drv,        \* the thread that calls start() and stop() on that server
    clients,    \* the HTTP clients of that server
    hnd,        \* the request handler the listener thread is running, if any
    dashboard,  \* the module global _dashboard: a port, or 0 for None
    dsrv,       \* the DashboardServer object that holds each dashboard port, if any
    resp        \* the last response the dashboard handler wrote

mvars == <<streams, servers, pc, arg, loc, pre, ret, budget>>
svars == <<ss, drv, clients, hnd>>
dvars == <<dashboard, dsrv, resp>>
vars == <<mvars, svars, dvars>>

\* --------------------------------------------------------- StreamServer
\* No object holds the port: no listening socket is bound to it.
NoServer ==
    [sock |-> FALSE, camera_index |-> 0, port |-> 0, streaming |-> FALSE,
     cap |-> "none", httpd |-> "none", shutReq |-> FALSE]

\* Faulty variant of StreamServer__init__: the camera index argument is not stored,
\* the attribute keeps the default index 0.
StreamServer__init__default_index(camera_index, port) ==
    [sock |-> TRUE, camera_index |-> 0, port |-> port, streaming |-> FALSE,
     cap |-> "none", httpd |-> "none", shutReq |-> FALSE]

\* StreamServer.__init__: HTTPServer.__init__ binds and listens on the port;
\* streaming = False, no thread yet.
StreamServer__init__(camera_index, port) ==
    [sock |-> TRUE, camera_index |-> camera_index, port |-> port,
     streaming |-> FALSE, cap |-> "none", httpd |-> "none", shutReq |-> FALSE]

\* The ports that have a listening socket.
BoundPorts == {p \in Ports : servers[p].sock}

\* ------------------------------------------------------ registry (dict)
Keys(reg) == {reg[k].idx : k \in DOMAIN reg}
Pos(reg, i) == CHOOSE k \in DOMAIN reg : reg[k].idx = i
Get(reg, i) == reg[Pos(reg, i)].srv
Put(reg, i, s) ==
    IF i \in Keys(reg) THEN [reg EXCEPT ![Pos(reg, i)].srv = s]
    ELSE Append(reg, [idx |-> i, srv |-> s])
Pop(reg, i) == SelectSeq(reg, LAMBDA e : e.idx # i)
Referenced(s) ==
    \/ \E k \in DOMAIN streams : streams[k].srv = s
    \/ \E t \in Callers : loc[t].server = s

\* The registry with each server's port, as a value.
Snapshot(reg) ==
    [k \in DOMAIN reg |->
        [idx |-> reg[k].idx, srv |-> reg[k].srv, port |-> servers[reg[k].srv].port]]

\* ------------------------------------------------------------- results
Url(port) == <<"http://localhost:", port>>
StreamUrl(port) == <<"http://localhost:", port, "/stream">>

NoArg == [op |-> "none", camera_index |-> 0, port |-> 0]
\* The locals of a call.  For list_streams: rest is what its dict iterator
\* has yet to visit, used the size of the dict when the iterator was made,
\* acc the list built so far, and hist, kept for the record, the contents
\* the registry has had since the call began.
NoLoc ==
    [server |-> 0, todo |-> <<>>, in_stop_all |-> FALSE, rest |-> <<>>, used |-> 0,
     acc |-> <<>>, hist |-> {}]
NoRet ==
    [status |-> "none", camera_index |-> -1, port |-> -1, url |-> <<>>,
     stream_url |-> <<>>, names |-> -1, list |-> <<>>]

Result(status, camera_index, port) ==
    [NoRet EXCEPT !.status = status, !.camera_index = camera_index, !.port = port,
                  !.url = Url(port), !.stream_url = StreamUrl(port)]
Raised(error, names) == [NoRet EXCEPT !.status = error, !.names = names]

\* ------------------------------------- one StreamServer seen from inside
\* StreamServer.__init__, lines 89-97: streaming False, _frame None (0), the
\* frame lock free, no capture thread, no listener thread.  writes counts
\* the frames stored so far and numbers them; buffer is the capture loop's
\* encoded frame that is not stored yet.
NewStreamServer ==
    [streaming |-> FALSE, frame |-> 0, writes |-> 0, lock |-> "free",
     cap |-> "none", buffer |-> 0, httpd |-> "none", shutReq |-> FALSE]

\* The thread that owns the server object has called nothing yet.
NewDriver == [pc |-> "new", start |-> "none", stop |-> "none"]

\* A client that has not connected: nothing received.  status is the status
\* line it received, last the number of the last frame it received, parts
\* how many parts it received (counted up to two), raised whether an
\* exception left the handler that served it, body what it received of the
\* part that was written last.
NoClient ==
    [st |-> "away", conn |-> "open", status |-> 0, last |-> 0, parts |-> 0,
     raised |-> FALSE, body |-> <<>>]

\* The listener thread runs no handler.  w counts the writes done for the
\* part that is being written.
NoHandler == [client |-> 0, path |-> "none", pc |-> "idle", frame_data |-> 0, w |-> 0]

InitStreamServer ==
    /\ ss = NewStreamServer
    /\ drv = NewDriver
    /\ clients = [c \in Clients |-> NoClient]
    /\ hnd = NoHandler

\* ------------------------------------------------------------- dashboard
\* No DashboardServer object holds the port.
NoDashboardServer == [sock |-> FALSE, httpd |-> "none", shutReq |-> FALSE]

\* Nothing was answered yet.  status 0 with an error is a request that got
\* no response: the handler raised.
NoResponse ==
    [status |-> 0, ctype |-> "none", length |-> 0, body |-> <<>>, error |-> "none"]

\* Line 583: _dashboard = None.
InitDashboard ==
    /\ dashboard = 0
    /\ dsrv = [p \in DashPorts |-> NoDashboardServer]
    /\ resp = NoResponse

TypeOK ==
    /\ \A t \in Callers : budget[t] >= -1
    /\ \A s \in Ports : servers[s].cap \in {"none", "opening", "running", "failed", "released"}
    /\ \A s \in Ports : servers[s].httpd \in {"none", "serving", "shut"}
    /\ \A s \in Ports : servers[s].sock => servers[s].port = s
    /\ \A k \in DOMAIN streams : streams[k].srv \in BoundPorts

Init ==
    /\ streams = <<>>
    /\ servers = [s \in Ports |-> NoServer]
    /\ pc = [t \in Callers |-> "idle"]
    /\ arg = [t \in Callers |-> NoArg]
    /\ loc = [t \in Callers |-> NoLoc]
    /\ pre = [t \in Callers |-> <<>>]
    /\ ret = [t \in Callers |-> NoRet]
    /\ budget = [t \in Callers |-> IF t = 1 THEN -1 ELSE 0]
    /\ InitStreamServer
    /\ InitDashboard

Return(t, r) ==
    /\ pc' = [pc EXCEPT ![t] = "idle"]
    /\ loc' = [loc EXCEPT ![t] = NoLoc]
    /\ ret' = [ret EXCEPT ![t] = r]

\* What a dict iterator has yet to visit once the dict has changed from old
\* to new by one insertion, replacement or removal: a removed entry is
\* gone, a replaced value is seen in its place, a new key comes last.
IterAfter(rest, old, new) ==
    LET kept == SelectSeq(rest, LAMBDA e : e.idx \in Keys(new)) IN
    [k \in DOMAIN kept |-> [idx |-> kept[k].idx, srv |-> Get(new, kept[k].idx)]]
        \o SelectSeq(new, LAMBDA e : e.idx \notin Keys(old))

\* The locals of caller u after another thread has changed the registry to
\* new: only an iteration in progress sees the change.
DictChanged(u, new) ==
    IF pc[u] = "ls_next"
    THEN [loc[u] EXCEPT !.rest = IterAfter(@, streams, new), !.hist = @ \cup {new}]
    ELSE loc[u]

Begin(t, op, camera_index, port) ==
    /\ pc[t] = "idle"
    /\ budget[t] # 0
    /\ budget' = [budget EXCEPT ![t] = IF @ < 0 THEN @ ELSE @ - 1]
    /\ arg' = [arg EXCEPT ![t] = [op |-> op, camera_index |-> camera_index, port |-> port]]
    /\ pre' = [pre EXCEPT ![t] = Snapshot(streams)]

\* ------------------------------------------------- StreamManager.start_stream
\* Lines 199-205: the dictionary returned for an index that is registered.
\* Faulty variant: it reports the requested port instead of the existing server's.
AlreadyRunningRequested(camera_index, port, existing) ==
    Result("already_running", camera_index, port)

AlreadyRunning(camera_index, port, existing) ==
    Result("already_running", camera_index, existing.port)

\* Lines 208-209: the registry positions whose server has the requested port.
\* Faulty variant: the comparison is made with the camera index, never a port.
PortConflictsByIndex(reg, port) ==
    {k \in DOMAIN reg : servers[reg[k].srv].camera_index = port}

PortConflicts(reg, port) ==
    {k \in DOMAIN reg : servers[reg[k].srv].port = port}

FirstOf(S) == CHOOSE k \in S : \A k2 \in S : k <= k2

\* Line 197: the call, and the check that the index is already registered.
start_stream(t, camera_index, port) ==
    /\ Begin(t, "start_stream", camera_index, port)
    /\ IF camera_index \in Keys(streams)
       THEN Return(t, AlreadyRunning(camera_index, port,
                                     servers[Get(streams, camera_index)]))
       ELSE /\ pc' = [pc EXCEPT ![t] = "ss_port"]
            /\ ret' = [ret EXCEPT ![t] = NoRet]
            /\ loc' = loc
    /\ UNCHANGED <<streams, servers>>
    /\ UNCHANGED <<svars, dvars>>

\* Lines 208-212: the loop over the registry that looks for the port's owner.
start_stream_port(t) ==
    /\ pc[t] = "ss_port"
    /\ LET hit == PortConflicts(streams, arg[t].port) IN
       IF hit # {}
       THEN Return(t, Raised("PortInUse", streams[FirstOf(hit)].idx))
       ELSE /\ pc' = [pc EXCEPT ![t] = "ss_new"]
            /\ UNCHANGED <<loc, ret>>
    /\ UNCHANGED <<streams, servers, arg, pre, budget>>
    /\ UNCHANGED <<svars, dvars>>

\* Line 214: StreamServer(camera_index, port).  The bind raises OSError when
\* the port has a listening socket; the socket of the failed object is closed.
StreamServer_new(t) ==
    /\ pc[t] = "ss_new"
    /\ IF arg[t].port \in BoundPorts
       THEN /\ Return(t, Raised("OSError", arg[t].port))
            /\ UNCHANGED servers
       ELSE /\ servers' = [servers EXCEPT
                   ![arg[t].port] = StreamServer__init__(arg[t].camera_index, arg[t].port)]
            /\ loc' = [loc EXCEPT ![t].server = arg[t].port]
            /\ pc' = [pc EXCEPT ![t] = "ss_start"]
            /\ ret' = ret
    /\ UNCHANGED <<streams, arg, pre, budget>>
    /\ UNCHANGED <<svars, dvars>>

\* Faulty variant of StreamServer_start_check: the server is registered whatever the
\* outcome of start() (the registration moved in front of the check).
StreamServer_start_check_registers(t) ==
    /\ pc[t] = "ss_grace"
    /\ LET s == loc[t].server IN
       /\ streams' = Put(streams, arg[t].camera_index, s)
       /\ IF ~servers[s].streaming
          THEN /\ Return(t, Raised("OpenFailed", servers[s].camera_index))
               /\ UNCHANGED servers
          ELSE /\ servers' = [servers EXCEPT ![s].httpd = "serving"]
               /\ pc' = [pc EXCEPT ![t] = "ss_reg"]
               /\ UNCHANGED <<loc, ret>>
    /\ UNCHANGED <<arg, pre, budget>>
    /\ UNCHANGED <<svars, dvars>>

\* StreamServer.start, lines 135-142: set the flag, spawn the capture thread.
StreamServer_start(t) ==
    /\ pc[t] = "ss_start"
    /\ LET s == loc[t].server IN
       IF servers[s].streaming
       THEN /\ pc' = [pc EXCEPT ![t] = "ss_reg"]
            /\ UNCHANGED servers
       ELSE /\ servers' = [servers EXCEPT ![s].streaming = TRUE, ![s].cap = "opening"]
            /\ pc' = [pc EXCEPT ![t] = "ss_grace"]
    /\ UNCHANGED <<streams, arg, loc, pre, ret, budget>>
    /\ UNCHANGED <<svars, dvars>>

\* StreamServer.start, lines 145-152: after the sleep, raise if the flag was
\* cleared, else spawn the listener thread (serve_forever).
StreamServer_start_check(t) ==
    /\ pc[t] = "ss_grace"
    /\ LET s == loc[t].server IN
       IF ~servers[s].streaming
       THEN /\ Return(t, Raised("OpenFailed", servers[s].camera_index))
            /\ UNCHANGED servers
       ELSE /\ servers' = [servers EXCEPT ![s].httpd = "serving"]
            /\ pc' = [pc EXCEPT ![t] = "ss_reg"]
            /\ UNCHANGED <<loc, ret>>
    /\ UNCHANGED <<streams, arg, pre, budget>>
    /\ UNCHANGED <<svars, dvars>>

\* Lines 216-224: register the server and return "started".
start_stream_register(t) ==
    /\ pc[t] = "ss_reg"
    /\ streams' = Put(streams, arg[t].camera_index, loc[t].server)
    /\ pc' = [pc EXCEPT ![t] = "idle"]
    /\ ret' = [ret EXCEPT ![t] = Result("started", arg[t].camera_index, arg[t].port)]
    /\ loc' = [u \in Callers |-> IF u = t THEN NoLoc ELSE DictChanged(u, streams')]
    /\ UNCHANGED <<servers, arg, pre, budget>>
    /\ UNCHANGED <<svars, dvars>>

\* ------------------------------------------------ StreamServer._capture_loop
\* Lines 106-117: cv2.VideoCapture(camera_index); the device decides whether
\* it opens.  On failure the loop clears the flag and returns.
capture_loop_open(s) ==
    /\ servers[s].cap = "opening"
    /\ \E opened \in BOOLEAN :
         servers' = [servers EXCEPT
             ![s].cap = IF opened THEN "running" ELSE "failed",
             ![s].streaming = IF opened THEN @ ELSE FALSE]
    /\ UNCHANGED <<streams, pc, arg, loc, pre, ret, budget>>
    /\ UNCHANGED <<svars, dvars>>

\* Lines 119, 130-131: the loop sees the flag cleared, releases the camera
\* and the thread ends.
capture_loop_exit(s) ==
    /\ servers[s].cap = "running"
    /\ ~servers[s].streaming
    /\ servers' = [servers EXCEPT ![s].cap = "released"]
    /\ UNCHANGED <<streams, pc, arg, loc, pre, ret, budget>>
    /\ UNCHANGED <<svars, dvars>>

\* socketserver.serve_forever run by the listener thread (line 151): it ends
\* once shutdown() was requested, clears the request and sets the event
\* shutdown() waits for.
serve_forever_exit(s) ==
    /\ servers[s].httpd = "serving"
    /\ servers[s].shutReq
    /\ servers' = [servers EXCEPT ![s].httpd = "shut", ![s].shutReq = FALSE]
    /\ UNCHANGED <<streams, pc, arg, loc, pre, ret, budget>>
    /\ UNCHANGED <<svars, dvars>>

\* No statement of stream.py closes a server's listening socket (stop() has
\* no server_close()): the socket is closed when the runtime reclaims the
\* object, which it can do once neither the registry, nor a caller, nor a
\* live thread of the server refers to it.
reclaim(s) ==
    /\ servers[s].sock
    /\ ~Referenced(s)
    /\ servers[s].cap \notin {"opening", "running"}
    /\ servers[s].httpd # "serving"
    /\ servers' = [servers EXCEPT ![s] = NoServer]
    /\ UNCHANGED <<streams, pc, arg, loc, pre, ret, budget>>
    /\ UNCHANGED <<svars, dvars>>

\* -------------------------------------------------- StreamManager.stop_stream
\* Line 236: "camera_index not in self._streams".
\* Faulty variant: the check is missing.
NotRegisteredUnchecked(reg, camera_index) == FALSE

NotRegistered(reg, camera_index) == camera_index \notin Keys(reg)

NotRunning(camera_index) ==
    [NoRet EXCEPT !.status = "not_running", !.camera_index = camera_index]
Stopped(camera_index) ==
    [NoRet EXCEPT !.status = "stopped", !.camera_index = camera_index]

\* Lines 236-240: the call, and the check that the index is registered.
stop_stream_call(t, camera_index) ==
    /\ Begin(t, "stop_stream", camera_index, 0)
    /\ IF NotRegistered(streams, camera_index)
       THEN Return(t, NotRunning(camera_index))
       ELSE /\ pc' = [pc EXCEPT ![t] = "st_pop"]
            /\ ret' = [ret EXCEPT ![t] = NoRet]
            /\ loc' = loc
    /\ UNCHANGED <<streams, servers>>

\* stop_stream called as a tool (lines 297-307).
stop_stream(t, camera_index) ==
    /\ stop_stream_call(t, camera_index)
    /\ UNCHANGED <<svars, dvars>>

\* Line 242: self._streams.pop(camera_index), KeyError if the key is gone.
stop_stream_pop(t) ==
    /\ pc[t] = "st_pop"
    /\ IF arg[t].camera_index \in Keys(streams)
       THEN /\ streams' = Pop(streams, arg[t].camera_index)
            /\ loc' = [u \in Callers |->
                        IF u = t
                        THEN [loc[t] EXCEPT !.server = Get(streams, arg[t].camera_index)]
                        ELSE DictChanged(u, streams')]
            /\ pc' = [pc EXCEPT ![t] = "st_stop"]
            /\ ret' = ret
       ELSE /\ Return(t, Raised("KeyError", arg[t].camera_index))
            /\ streams' = streams
    /\ UNCHANGED <<servers, arg, pre, budget>>
    /\ UNCHANGED <<svars, dvars>>

\* StreamServer.stop, lines 156-157: clear the flag, request the shutdown of
\* serve_forever.
StreamServer_stop(t) ==
    /\ pc[t] = "st_stop"
    /\ servers' = [servers EXCEPT ![loc[t].server].streaming = FALSE,
                                  ![loc[t].server].shutReq = TRUE]
    /\ pc' = [pc EXCEPT ![t] = "st_wait"]
    /\ UNCHANGED <<streams, arg, loc, pre, ret, budget>>
    /\ UNCHANGED <<svars, dvars>>

\* StreamServer.stop, lines 157-165, and lines 245-248: shutdown() returns
\* once serve_forever has ended; the two joins return after at most their
\* timeout, whatever the threads do; stop_stream returns "stopped".
StreamServer_stop_wait(t) ==
    /\ pc[t] = "st_wait"
    /\ servers[loc[t].server].httpd = "shut"
    /\ IF loc[t].in_stop_all
       THEN /\ pc' = [pc EXCEPT ![t] = "sa_loop"]
            /\ loc' = [loc EXCEPT ![t].server = 0]
            /\ ret' = ret
       ELSE Return(t, Stopped(arg[t].camera_index))
    /\ UNCHANGED <<streams, servers, arg, pre, budget>>
    /\ UNCHANGED <<svars, dvars>>

\* ----------------------------------------------------- StreamManager.stop_all
\* Line 272: list(self._streams.keys()).
stop_all_call(t) ==
    /\ Begin(t, "stop_all", 0, 0)
    /\ loc' = [loc EXCEPT ![t].todo = [k \in DOMAIN streams |-> streams[k].idx],
                          ![t].in_stop_all = TRUE]
    /\ pc' = [pc EXCEPT ![t] = "sa_loop"]
    /\ ret' = [ret EXCEPT ![t] = NoRet]
    /\ UNCHANGED <<streams, servers>>

stop_all(t) ==
    /\ stop_all_call(t)
    /\ UNCHANGED <<svars, dvars>>

\* Lines 272-273: the next stop_stream(camera_index) of the loop, with its
\* check of line 236; None is returned when the list is exhausted.
stop_all_next(t) ==
    /\ pc[t] = "sa_loop"
    /\ IF loc[t].todo = <<>>
       THEN /\ Return(t, [NoRet EXCEPT !.status = "returned"])
            /\ arg' = arg
       ELSE LET camera_index == Head(loc[t].todo) IN
            /\ loc' = [loc EXCEPT ![t].todo = Tail(@)]
            /\ arg' = [arg EXCEPT ![t].camera_index = camera_index]
            /\ pc' = [pc EXCEPT ![t] =
                        IF NotRegistered(streams, camera_index) THEN "sa_loop" ELSE "st_pop"]
            /\ ret' = ret
    /\ UNCHANGED <<streams, servers, pre, budget>>
    /\ UNCHANGED <<svars, dvars>>

\* ------------------------------------------------- StreamManager.list_streams
StreamInfo(camera_index, server) ==
    [camera_index |-> camera_index, port |-> server.port, url |-> Url(server.port),
     stream_url |-> StreamUrl(server.port), streaming |-> server.streaming]

\* Lines 257-268: the list built from the registry, in its order.
StreamList ==
    [k \in DOMAIN streams |-> StreamInfo(streams[k].idx, servers[streams[k].srv])]

list_streams(t) ==
    /\ Begin(t, "list_streams", 0, 0)
    /\ Return(t, [NoRet EXCEPT !.status = "listed", !.list = StreamList])
    /\ UNCHANGED <<streams, servers>>
    /\ UNCHANGED <<svars, dvars>>

\* list_streams in steps, for a caller that runs beside other callers.
\* Lines 257-258: the empty list and the iterator over self._streams.items(),
\* which notes the size of the dict.
list_streams_iter(t) ==
    /\ Begin(t, "list_streams", 0, 0)
    /\ pc' = [pc EXCEPT ![t] = "ls_next"]
    /\ loc' = [loc EXCEPT ![t].rest = streams, ![t].used = Len(streams),
                          ![t].hist = {streams}]
    /\ ret' = [ret EXCEPT ![t] = NoRet]
    /\ UNCHANGED <<streams, servers>>
    /\ UNCHANGED <<svars, dvars>>

\* Lines 258-268: the iterator's next and one pass of the loop body.  A dict
\* whose size is not the one the iterator noted makes next raise
\* RuntimeError ("dictionary changed size during iteration"); an exhausted
\* iterator ends the loop and the list is returned; else the entry's
\* dictionary is appended, with the server's attributes as they are now.
list_streams_next(t) ==
    /\ pc[t] = "ls_next"
    /\ IF Len(streams) # loc[t].used
       THEN Return(t, Raised("RuntimeError", 0))
       ELSE IF loc[t].rest = <<>>
       THEN Return(t, [NoRet EXCEPT !.status = "listed", !.list = loc[t].acc])
       ELSE /\ loc' = [loc EXCEPT
                    ![t].acc = Append(@, StreamInfo(Head(loc[t].rest).idx,
                                                   servers[Head(loc[t].rest).srv])),
                    ![t].rest = Tail(@)]
            /\ UNCHANGED <<pc, ret>>
    /\ UNCHANGED <<streams, servers, arg, pre, budget>>
    /\ UNCHANGED <<svars, dvars>>

\* ------------------------------------------------------------ specification
Next ==
    \/ \E t \in Callers, i \in Cameras, p \in Ports : start_stream(t, i, p)
    \/ \E t \in Callers : start_stream_port(t)
    \/ \E t \in Callers : StreamServer_new(t)
    \/ \E t \in Callers : StreamServer_start(t)
    \/ \E t \in Callers : StreamServer_start_check(t)
    \/ \E t \in Callers : start_stream_register(t)
    \/ \E t \in Callers, i \in Cameras : stop_stream(t, i)
    \/ \E t \in Callers : stop_stream_pop(t)
    \/ \E t \in Callers : StreamServer_stop(t)
    \/ \E t \in Callers : StreamServer_stop_wait(t)
    \/ \E t \in Callers : stop_all(t)
    \/ \E t \in Callers : stop_all_next(t)
    \/ \E t \in Callers : list_streams(t)
    \/ \E s \in Ports : capture_loop_open(s)
    \/ \E s \in Ports : capture_loop_exit(s)
    \/ \E s \in Ports : serve_forever_exit(s)
    \/ \E s \in Ports : reclaim(s)

\* One thread calls the manager: the calls form a sequence.
Spec == Init /\ [][Next]_vars

\* Two threads call the manager concurrently (a tool call and a dashboard
\* request, or two tool calls).
InitConc ==
    /\ streams = <<>>
    /\ servers = [s \in Ports |-> NoServer]
    /\ pc = [t \in Callers |-> "idle"]
    /\ arg = [t \in Callers |-> NoArg]
    /\ loc = [t \in Callers |-> NoLoc]
    /\ pre = [t \in Callers |-> <<>>]
    /\ ret = [t \in Callers |-> NoRet]
    /\ budget = [t \in Callers |-> MaxConcCalls]
    /\ InitStreamServer
    /\ InitDashboard

SpecConc == InitConc /\ [][Next]_vars

\* StreamManager(), lines 174-184: __new__ returns the one instance that
\* exists, and Python then runs __init__ on the returned object, which
\* assigns a new empty dict to self._streams.
StreamManager__init__(t) ==
    /\ Begin(t, "StreamManager", 0, 0)
    /\ streams' = <<>>
    /\ Return(t, [NoRet EXCEPT !.status = "constructed"])
    /\ UNCHANGED servers
    /\ UNCHANGED <<svars, dvars>>

\* One thread calls the manager and constructs StreamManager() again at
\* any time.
NextManager ==
    \/ \E t \in Callers, i \in Cameras, p \in Ports : start_stream(t, i, p)
    \/ \E t \in Callers : start_stream_port(t)
    \/ \E t \in Callers : StreamServer_new(t)
    \/ \E t \in Callers : StreamServer_start(t)
    \/ \E t \in Callers : StreamServer_start_check(t)
    \/ \E t \in Callers : start_stream_register(t)
    \/ \E t \in Callers, i \in Cameras : stop_stream(t, i)
    \/ \E t \in Callers : stop_stream_pop(t)
    \/ \E t \in Callers : StreamServer_stop(t)
    \/ \E t \in Callers : StreamServer_stop_wait(t)
    \/ \E t \in Callers : list_streams(t)
    \/ \E t \in Callers : StreamManager__init__(t)
    \/ \E s \in Ports : capture_loop_open(s)
    \/ \E s \in Ports : capture_loop_exit(s)
    \/ \E s \in Ports : serve_forever_exit(s)
    \/ \E s \in Ports : reclaim(s)

SpecManager == Init /\ [][NextManager]_vars

\* Two threads call the manager; list_streams runs in its steps.
NextList ==
    \/ \E t \in Callers, i \in Cameras, p \in Ports : start_stream(t, i, p)
    \/ \E t \in Callers : start_stream_port(t)
    \/ \E t \in Callers : StreamServer_new(t)
    \/ \E t \in Callers : StreamServer_start(t)
    \/ \E t \in Callers : StreamServer_start_check(t)
    \/ \E t \in Callers : start_stream_register(t)
    \/ \E t \in Callers, i \in Cameras : stop_stream(t, i)
    \/ \E t \in Callers : stop_stream_pop(t)
    \/ \E t \in Callers : StreamServer_stop(t)
    \/ \E t \in Callers : StreamServer_stop_wait(t)
    \/ \E t \in Callers : list_streams_iter(t)
    \/ \E t \in Callers : list_streams_next(t)
    \/ \E s \in Ports : capture_loop_open(s)
    \/ \E s \in Ports : capture_loop_exit(s)
    \/ \E s \in Ports : serve_forever_exit(s)
    \/ \E s \in Ports : reclaim(s)

SpecList == InitConc /\ [][NextList]_vars

\* ==================================================== inside a StreamServer
\* The thread that created the server calls start() once and stop() once,
\* as StreamManager does (lines 215 and 243); stop() may also follow a
\* start() that raised.
\* StreamServer.start, lines 135-142: return if the flag is set, else set it
\* and spawn the capture thread; the sleep of line 145 follows.
start ==
    /\ drv.pc = "new"
    /\ IF ss.streaming
       THEN /\ drv' = [drv EXCEPT !.pc = "started", !.start = "returned"]
            /\ ss' = ss
       ELSE /\ ss' = [ss EXCEPT !.streaming = TRUE, !.cap = "opening"]
            /\ drv' = [drv EXCEPT !.pc = "grace"]
    /\ UNCHANGED <<clients, hnd, mvars, dvars>>

\* StreamServer.start, lines 147-152: after the sleep, raise if the flag was
\* cleared, else spawn the listener thread, which runs serve_forever.
start_check ==
    /\ drv.pc = "grace"
    /\ IF ~ss.streaming
       THEN /\ drv' = [drv EXCEPT !.pc = "failed", !.start = "OpenFailed"]
            /\ ss' = ss
       ELSE /\ ss' = [ss EXCEPT !.httpd = "serving"]
            /\ drv' = [drv EXCEPT !.pc = "started", !.start = "returned"]
    /\ UNCHANGED <<clients, hnd, mvars, dvars>>

\* What stop() does to the streaming flag, line 156.
\* Faulty variant: stop() requests the shutdown and leaves the flag set.
FlagAfterStopKept(flag) == flag

FlagAfterStop(flag) == FALSE

\* StreamServer.stop, lines 156-157: clear the flag; shutdown() sets the
\* shutdown request and starts to wait for the event that serve_forever
\* sets when it ends.
stop ==
    /\ drv.pc \in {"started", "failed"}
    /\ ss' = [ss EXCEPT !.streaming = FlagAfterStop(@), !.shutReq = TRUE]
    /\ drv' = [drv EXCEPT !.pc = "shutdown", !.stop = "called"]
    /\ UNCHANGED <<clients, hnd, mvars, dvars>>

\* StreamServer.stop, lines 157-165: shutdown() returns once the event is
\* set, a wait without timeout; the two joins that follow return after at
\* most two seconds each, whatever the threads do.
stop_return ==
    /\ drv.pc = "shutdown"
    /\ ss.httpd = "shut"
    /\ drv' = [drv EXCEPT !.pc = "stopped", !.stop = "returned"]
    /\ UNCHANGED <<ss, clients, hnd, mvars, dvars>>

\* ------------------------------------------------ _capture_loop, in steps
\* Lines 106-117: open the camera; on failure clear the flag and return.
capture_open ==
    /\ ss.cap = "opening"
    /\ \E opened \in BOOLEAN :
         ss' = [ss EXCEPT !.cap = IF opened THEN "loop" ELSE "failed",
                          !.streaming = IF opened THEN @ ELSE FALSE]
    /\ UNCHANGED <<drv, clients, hnd, mvars, dvars>>

\* Line 126, the assignment to self._frame.
\* Faulty variant: the loop publishes a reused encode buffer, which holds an
\* older frame every second time.
StoreFrameStale(current, encoded) ==
    IF encoded % 2 = 1 /\ current > 1 THEN current - 1 ELSE encoded

StoreFrame(current, encoded) == encoded

\* Lines 121-128 when grab() or retrieve() gives no frame: nothing is stored.
\* Faulty variant: the slot is emptied when a tick gives no frame.
FrameAfterMissCleared(current) == 0

FrameAfterMiss(current) == current

\* Lines 121-128 when grab() or retrieve() gives no frame: the flag is not
\* touched.
\* Faulty variant: a tick without frame ends the stream.
FlagAfterMissFatal(flag) == FALSE

FlagAfterMiss(flag) == flag

\* Lines 119-124: the loop test, grab(), retrieve() and imencode().  The
\* camera gives a frame or not; an encoded frame waits for the lock, a tick
\* without frame goes to the sleep of line 128.
capture_grab ==
    /\ ss.cap = "loop"
    /\ ss.streaming
    /\ \/ /\ ss.writes < MaxFrames
          /\ ss' = [ss EXCEPT !.cap = "encoded", !.buffer = ss.writes + 1]
       \/ ss' = [ss EXCEPT !.frame = FrameAfterMiss(@),
                           !.streaming = FlagAfterMiss(@), !.cap = "missed"]
    /\ UNCHANGED <<drv, clients, hnd, mvars, dvars>>

\* Lines 128 and 119 after a tick without frame: sleep, then the loop test
\* again.
capture_retry ==
    /\ ss.cap = "missed"
    /\ ss' = [ss EXCEPT !.cap = "loop"]
    /\ UNCHANGED <<drv, clients, hnd, mvars, dvars>>

\* Line 125: "with self._frame_lock", the acquisition.
capture_lock ==
    /\ ss.cap = "encoded"
    /\ ss.lock = "free"
    /\ ss' = [ss EXCEPT !.cap = "locked", !.lock = "capture"]
    /\ UNCHANGED <<drv, clients, hnd, mvars, dvars>>

\* Lines 126-128: store the frame, release the lock, sleep.
capture_store ==
    /\ ss.cap = "locked"
    /\ ss' = [ss EXCEPT !.frame = StoreFrame(@, ss.buffer), !.writes = @ + 1,
                        !.buffer = 0, !.lock = "free", !.cap = "loop"]
    /\ UNCHANGED <<drv, clients, hnd, mvars, dvars>>

\* Lines 119, 130-131: the loop test fails; release the camera, thread ends.
capture_release ==
    /\ ss.cap = "loop"
    /\ ~ss.streaming
    /\ ss' = [ss EXCEPT !.cap = "released"]
    /\ UNCHANGED <<drv, clients, hnd, mvars, dvars>>

\* ------------------------------------------------------------ HTTP clients
\* The request paths that do_GET tells apart (lines 20-26).
Paths == {"/", "/stream", "/other"}

\* A client connects to the listening socket, which exists from the
\* construction of the server on, and sends its request; the connection
\* waits in the backlog until the listener thread accepts it.
client_connect(c) ==
    /\ clients[c].st = "away"
    /\ clients' = [clients EXCEPT ![c].st = "queued"]
    /\ UNCHANGED <<ss, drv, hnd, mvars, dvars>>

\* The client stops reading: once the buffers of the connection are full a
\* write of the server blocks.  The buffers are empty until the handler
\* writes, so a stall shows only while the client is served.
client_stall(c) ==
    /\ clients[c].st = "handled"
    /\ clients[c].conn = "open"
    /\ clients' = [clients EXCEPT ![c].conn = "stalled"]
    /\ UNCHANGED <<ss, drv, hnd, mvars, dvars>>

client_resume(c) ==
    /\ clients[c].st = "handled"
    /\ clients[c].conn = "stalled"
    /\ clients' = [clients EXCEPT ![c].conn = "open"]
    /\ UNCHANGED <<ss, drv, hnd, mvars, dvars>>

\* The client goes away: it closes its end (the server's next write is
\* accepted, the one after fails with BrokenPipeError) or it resets the
\* connection (the server's next write fails with ConnectionResetError).
\* Once the response head is written the two differ in nothing the server
\* sees: every part is more than one write.
client_disconnect(c) ==
    /\ clients[c].st \in {"queued", "handled"}
    /\ clients[c].conn \in {"open", "stalled"}
    /\ \E how \in IF clients[c].status = 0 THEN {"closed", "reset"} ELSE {"closed"} :
         clients' = [clients EXCEPT ![c].conn = how]
    /\ UNCHANGED <<ss, drv, hnd, mvars, dvars>>

\* ------------------------------------- serve_forever and MJPEGHandler
\* HTTPServer handles one request at a time, in the listener thread: the
\* loop of serve_forever takes the next connection when it runs no handler
\* and finds no shutdown request.
serve_forever_accept(c, path) ==
    /\ ss.httpd = "serving"
    /\ ~ss.shutReq
    /\ hnd.pc = "idle"
    /\ clients[c].st = "queued"
    /\ clients' = [clients EXCEPT ![c].st = "handled"]
    /\ hnd' = [NoHandler EXCEPT !.client = c, !.path = path, !.pc = "do_GET"]
    /\ UNCHANGED <<ss, drv, mvars, dvars>>

\* The request is over: process_request closes the connection and the loop
\* of serve_forever goes on.  Of a connection that is over, the status the
\* client received, the count of its parts and the exception are kept.
Finish(c, status, raised) ==
    /\ clients' = [clients EXCEPT
            ![c] = [NoClient EXCEPT
                       !.st = "done", !.conn = "closed", !.parts = clients[c].parts,
                       !.status = IF clients[c].conn \in {"open", "stalled"}
                                  THEN status ELSE clients[c].status,
                       !.raised = raised]]
    /\ hnd' = NoHandler

\* do_GET, lines 20-26, with _serve_status_page and the headers of
\* _serve_mjpeg_stream (lines 56-61, before the try).  The response head is
\* short: it is written whether or not the client reads.  On a connection
\* that was reset the write raises ConnectionResetError out of do_GET;
\* socketserver reports it (handle_error) and closes the connection.
do_GET ==
    /\ hnd.pc = "do_GET"
    /\ LET c == hnd.client IN
       IF clients[c].conn = "reset"
       THEN Finish(c, 0, TRUE)
       ELSE IF hnd.path = "/"
       THEN Finish(c, 200, FALSE)
       ELSE IF hnd.path = "/stream"
       THEN /\ clients' = [clients EXCEPT
                   ![c].status = IF clients[c].conn \in {"open", "stalled"} THEN 200 ELSE @]
            /\ hnd' = [hnd EXCEPT !.pc = "loop"]
       ELSE Finish(c, 404, FALSE)
    /\ UNCHANGED <<ss, drv, mvars, dvars>>

\* Line 64: "while stream_server.streaming"; the loop and the handler end
\* when the flag is cleared.
mjpeg_loop_test ==
    /\ hnd.pc = "loop"
    /\ IF ss.streaming
       THEN /\ hnd' = [hnd EXCEPT !.pc = "get_frame"]
            /\ clients' = clients
       ELSE Finish(hnd.client, clients[hnd.client].status, FALSE)
    /\ UNCHANGED <<ss, drv, mvars, dvars>>

\* get_frame, line 101: "with self._frame_lock", the acquisition.
get_frame_lock ==
    /\ hnd.pc = "get_frame"
    /\ ss.lock = "free"
    /\ ss' = [ss EXCEPT !.lock = "listener"]
    /\ hnd' = [hnd EXCEPT !.pc = "locked"]
    /\ UNCHANGED <<drv, clients, mvars, dvars>>

\* Lines 101-102: the "with" block of get_frame ends with the return, which
\* releases the lock before the handler goes on.
\* Faulty variant: the handler keeps the lock while it writes the part.
LockAfterReadHeld(owner) == owner

LockAfterRead(owner) == "free"

\* get_frame, line 102, and lines 65-66, 72-73: return the slot's content
\* and release the lock; None (0) sends the handler to sleep and to the
\* loop test again.
get_frame ==
    /\ hnd.pc = "locked"
    /\ ss' = [ss EXCEPT !.lock = LockAfterRead(@)]
    /\ hnd' = [hnd EXCEPT !.frame_data = ss.frame,
                          !.pc = IF ss.frame # 0 THEN "write" ELSE "loop"]
    /\ UNCHANGED <<drv, clients, mvars, dvars>>

\* Lines 74-76: what the except clause does to the server object when a
\* write found the client gone: nothing.
\* Faulty variant: the handler stops the stream when its client has gone.
AfterDisconnectStops(server) == [server EXCEPT !.streaming = FALSE]

AfterDisconnect(server) == server

\* Lines 67-70: what the four wfile.write calls of one part send, as
\* tokens; the bytes of frame n are the token ToString(n).
\* Faulty variant: the frame is written in front of its header.
PartWritesDataFirst(frame_data) ==
    << <<"--frame", "CRLF">>, <<ToString(frame_data)>>,
       <<"Content-Type: image/jpeg", "CRLF", "CRLF">>, <<"CRLF">> >>

PartWrites(frame_data) ==
    << <<"--frame", "CRLF">>, <<"Content-Type: image/jpeg", "CRLF", "CRLF">>,
       <<ToString(frame_data)>>, <<"CRLF">> >>

\* Lines 67-70 and 74-76: one of the four writes of a part.  A client that
\* does not read blocks the write.  A client that is gone makes a write
\* raise BrokenPipeError or ConnectionResetError, which the handler catches:
\* the loop and the handler end.  After the fourth write the handler is at
\* the loop test again.
mjpeg_write ==
    /\ hnd.pc = "write"
    /\ LET c == hnd.client
           writes == PartWrites(hnd.frame_data) IN
       /\ clients[c].conn # "stalled"
       /\ IF clients[c].conn = "open"
          THEN /\ IF hnd.w + 1 < Len(writes)
                  THEN /\ clients' = [clients EXCEPT
                              ![c].body = IF hnd.w = 0 THEN writes[1]
                                          ELSE @ \o writes[hnd.w + 1]]
                       /\ hnd' = [hnd EXCEPT !.w = @ + 1]
                  ELSE /\ clients' = [clients EXCEPT
                              ![c].body = @ \o writes[hnd.w + 1],
                              ![c].last = hnd.frame_data,
                              ![c].parts = IF @ < 2 THEN @ + 1 ELSE @]
                       /\ hnd' = [hnd EXCEPT !.pc = "loop", !.w = 0]
               /\ ss' = ss
          ELSE /\ Finish(c, clients[c].status, FALSE)
               /\ ss' = AfterDisconnect(ss)
    /\ UNCHANGED <<drv, mvars, dvars>>

\* serve_forever ends once shutdown() was requested and no handler runs: it
\* clears the request and sets the event that shutdown() waits for.
serve_forever_end ==
    /\ ss.httpd = "serving"
    /\ ss.shutReq
    /\ hnd.pc = "idle"
    /\ ss' = [ss EXCEPT !.httpd = "shut", !.shutReq = FALSE]
    /\ UNCHANGED <<drv, clients, hnd, mvars, dvars>>

OwnerInCall == start_check \/ stop_return

CaptureThread ==
    \/ capture_open \/ capture_grab \/ capture_retry \/ capture_lock \/ capture_store
    \/ capture_release

ListenerThread ==
    \/ \E c \in Clients, path \in Paths : serve_forever_accept(c, path)
    \/ do_GET \/ mjpeg_loop_test \/ get_frame_lock \/ get_frame \/ mjpeg_write
    \/ serve_forever_end

NextStream ==
    \/ start
    \/ start_check
    \/ stop
    \/ stop_return
    \/ capture_open
    \/ capture_grab
    \/ capture_retry
    \/ capture_lock
    \/ capture_store
    \/ capture_release
    \/ \E c \in Clients : client_connect(c)
    \/ \E c \in Clients : client_stall(c)
    \/ \E c \in Clients : client_resume(c)
    \/ \E c \in Clients : client_disconnect(c)
    \/ \E c \in Clients, path \in Paths : serve_forever_accept(c, path)
    \/ do_GET
    \/ mjpeg_loop_test
    \/ get_frame_lock
    \/ get_frame
    \/ mjpeg_write
    \/ serve_forever_end

\* One StreamServer, its owner, its two threads and its clients.
SpecStream == Init /\ [][NextStream]_vars

\* The threads of the server keep running when they can: the scheduler
\* starves neither the capture thread nor the listener thread.  A thread
\* that waits for the frame lock gets it when it is free again and again
\* (it is held for one assignment or one read), and a write that waits for
\* its client completes when the client reads again and again.  The owner
\* goes on with a call it is in when it can; whether it calls at all is
\* left open, and so is what the clients do.
SpecStreamFair ==
    /\ Init /\ [][NextStream]_vars
    /\ SF_vars(CaptureThread) /\ SF_vars(ListenerThread) /\ WF_vars(OwnerInCall)

\* Clients that request /stream, keep reading and stay: no client stalls
\* and none leaves.
NextStop ==
    \/ start
    \/ start_check
    \/ stop
    \/ stop_return
    \/ capture_open
    \/ capture_grab
    \/ capture_retry
    \/ capture_lock
    \/ capture_store
    \/ capture_release
    \/ \E c \in Clients : client_connect(c)
    \/ \E c \in Clients : serve_forever_accept(c, "/stream")
    \/ do_GET
    \/ mjpeg_loop_test
    \/ get_frame_lock
    \/ get_frame
    \/ mjpeg_write
    \/ serve_forever_end

SpecStopFair ==
    /\ Init /\ [][NextStop]_vars
    /\ SF_vars(CaptureThread) /\ SF_vars(ListenerThread) /\ WF_vars(OwnerInCall)

\* ================================================================ dashboard
\* The thread that runs the dashboard's serve_forever and, inside it, one
\* DashboardHandler at a time; the calls it makes to the manager are calls
\* of this thread.
Handler == 2

\* A DashboardServer after __init__ and start() (lines 565-572): socket
\* bound, listener thread running serve_forever.
RunningDashboardServer == [sock |-> TRUE, httpd |-> "serving", shutReq |-> FALSE]

\* A DashboardServer that was stopped and has no reference left: the object
\* is finalised, which closes its socket.
ClosedDashboardServer == [sock |-> FALSE, httpd |-> "shut", shutReq |-> FALSE]

\* Lines 602 and 627: "_dashboard is not None".
\* Faulty variant: the test never finds a dashboard.
DashboardExistsNever(d) == FALSE

DashboardExists(d) == d # 0

DashResult(status, port) ==
    [NoRet EXCEPT !.status = status, !.port = port, !.url = Url(port)]

\* start_dashboard, lines 600-615.  DashboardServer(port) binds the port
\* (OSError if it has a listening socket, and _dashboard stays as it was);
\* start() spawns the listener thread.  An object that _dashboard no longer
\* names stays alive while its listener thread runs.
start_dashboard(t, port) ==
    /\ Begin(t, "start_dashboard", 0, port)
    /\ IF DashboardExists(dashboard)
       THEN /\ Return(t, DashResult("already_running", dashboard))
            /\ UNCHANGED <<dashboard, dsrv>>
       ELSE IF dsrv[port].sock
       THEN /\ Return(t, Raised("OSError", port))
            /\ UNCHANGED <<dashboard, dsrv>>
       ELSE /\ dashboard' = port
            /\ dsrv' = [dsrv EXCEPT ![port] = RunningDashboardServer]
            /\ Return(t, DashResult("started", port))
    /\ UNCHANGED <<streams, servers, resp, svars>>

\* stop_dashboard, lines 627-630, and DashboardServer.stop, line 576:
\* shutdown() sets the shutdown request and starts to wait.
stop_dashboard(t) ==
    /\ Begin(t, "stop_dashboard", 0, 0)
    /\ IF ~DashboardExists(dashboard)
       THEN /\ Return(t, [NoRet EXCEPT !.status = "not_running"])
            /\ dsrv' = dsrv
       ELSE /\ dsrv' = [dsrv EXCEPT ![dashboard].shutReq = TRUE]
            /\ pc' = [pc EXCEPT ![t] = "sd_wait"]
            /\ ret' = [ret EXCEPT ![t] = NoRet]
            /\ loc' = loc
    /\ UNCHANGED <<streams, servers, dashboard, resp, svars>>

\* DashboardServer.stop, lines 576-579, and stop_dashboard, lines 631-633:
\* shutdown() returns once serve_forever has ended, the join returns, and
\* "_dashboard = None" drops the last reference to the object: its listener
\* thread has ended, the object is finalised and its socket closed.
stop_dashboard_return(t) ==
    /\ pc[t] = "sd_wait"
    /\ dsrv[dashboard].httpd = "shut"
    /\ dashboard' = 0
    /\ dsrv' = [dsrv EXCEPT ![dashboard] = ClosedDashboardServer]
    /\ Return(t, [NoRet EXCEPT !.status = "stopped"])
    /\ UNCHANGED <<streams, servers, arg, pre, budget, resp, svars>>

\* The handler of a POST has called the manager and not answered yet.
Pending == resp.error = "pending"

\* serve_forever of a DashboardServer ends once shutdown() was requested and
\* no handler runs.
dashboard_serve_forever_end(p) ==
    /\ dsrv[p].httpd = "serving"
    /\ dsrv[p].shutReq
    /\ pc[Handler] = "idle" /\ ~Pending
    /\ dsrv' = [dsrv EXCEPT ![p].httpd = "shut", ![p].shutReq = FALSE]
    /\ UNCHANGED <<mvars, dashboard, resp, svars>>

\* ------------------------------------------------------- DashboardHandler
\* A request path, split at "/": "/" is <<>>, "/api/stop/0" is
\* <<"api", "stop", "0">>.
Root == <<>>
ApiStreams == <<"api", "streams">>
ApiStopAll == <<"api", "stop-all">>

DashPaths ==
    {Root, ApiStreams, ApiStopAll, <<"api", "stop">>, <<"api", "stop", "abc">>,
     <<"api", "stop", "x", "0">>}
        \cup {<<"api", "stop", ToString(i)>> : i \in Cameras}

Methods == {"GET", "POST", "PUT"}

\* Line 339: self.path.startswith("/api/stop/").
StartsWithApiStop(path) == Len(path) >= 3 /\ path[1] = "api" /\ path[2] = "stop"

\* Line 340: int(self.path.split("/")[-1]); ValueError when the last segment
\* is not an integer literal.
LastSegment(path) == path[Len(path)]
IsIntLiteral(seg) == \E i \in Cameras : ToString(i) = seg
int(seg) == CHOOSE i \in Cameras : ToString(i) = seg

\* json.dumps: the text as a sequence of tokens.
JsonString(str) == <<"\"", str, "\"">>
JsonUrl(u) ==
    <<"\"", u[1], ToString(u[2])>> \o (IF Len(u) > 2 THEN <<u[3]>> ELSE <<>>) \o <<"\"">>
JsonStreamInfo(e) ==
    <<"{", "camera_index", ":", ToString(e.camera_index), ",",
           "port", ":", ToString(e.port), ",", "url", ":">> \o JsonUrl(e.url)
        \o <<",", "stream_url", ":">> \o JsonUrl(e.stream_url)
        \o <<",", "streaming", ":", IF e.streaming THEN "true" ELSE "false", "}">>

RECURSIVE JsonItems(_)
JsonItems(l) ==
    IF l = <<>> THEN <<>>
    ELSE JsonStreamInfo(Head(l)) \o (IF Len(l) > 1 THEN <<",">> ELSE <<>>)
            \o JsonItems(Tail(l))

JsonDumpsList(l) == <<"[">> \o JsonItems(l) \o <<"]">>

\* json.dumps of what stop_stream returned (line 349) and of
\* {"status": "stopped_all"} (line 359).
JsonDumpsResult(op, r) ==
    IF op = "stop_all" THEN <<"{", "status", ":">> \o JsonString("stopped_all") \o <<"}">>
    ELSE <<"{", "status", ":">> \o JsonString(r.status)
            \o <<",", "camera_index", ":", ToString(r.camera_index), "}">>

Response(status, ctype, body) ==
    [NoResponse EXCEPT !.status = status, !.ctype = ctype, !.length = Len(body),
                       !.body = body]

\* send_error(404, "Not Found"), lines 334 and 344.
NotFound == Response(404, "text/html", <<"Not Found">>)

\* A DashboardServer accepts requests: its listener runs, no shutdown is
\* requested, and its thread runs no handler.
Accepting ==
    /\ \E p \in DashPorts : dsrv[p].httpd = "serving" /\ ~dsrv[p].shutReq
    /\ pc[Handler] = "idle"
    /\ ~Pending

\* Line 545: streams = _manager.list_streams().
\* Faulty variant: the handler serves the registry as it was when its thread
\* last called the manager.
StreamsForApiCached ==
    [k \in DOMAIN pre[Handler] |->
        StreamInfo(pre[Handler][k].idx, servers[pre[Handler][k].srv])]

StreamsForApi == StreamList

\* do_GET, lines 327-334, with _serve_dashboard (lines 366-541, a constant
\* page) and _serve_streams_api (lines 543-552).
dashboard_do_GET(path) ==
    /\ Accepting
    /\ resp' = IF path = Root
               THEN Response(200, "text/html", <<"dashboard page">>)
               ELSE IF path = ApiStreams
               THEN Response(200, "application/json", JsonDumpsList(StreamsForApi))
               ELSE NotFound
    /\ UNCHANGED <<mvars, dashboard, dsrv, svars>>

\* do_POST, lines 336-344, up to the call of the manager by _stop_all_streams
\* (line 358) or _stop_stream (line 348).  A last segment that is no integer
\* makes int() raise ValueError: the exception leaves the handler,
\* socketserver reports it and closes the connection without a response.
dashboard_do_POST(path) ==
    /\ Accepting
    /\ IF path = ApiStopAll
       THEN /\ stop_all_call(Handler)
            /\ resp' = [NoResponse EXCEPT !.error = "pending"]
       ELSE IF StartsWithApiStop(path)
       THEN IF IsIntLiteral(LastSegment(path))
            THEN /\ stop_stream_call(Handler, int(LastSegment(path)))
                 /\ resp' = [NoResponse EXCEPT !.error = "pending"]
            ELSE /\ resp' = [NoResponse EXCEPT !.error = "ValueError"]
                 /\ UNCHANGED mvars
       ELSE /\ resp' = NotFound
            /\ UNCHANGED mvars
    /\ UNCHANGED <<dashboard, dsrv, svars>>

\* _stop_stream, lines 349-354, and _stop_all_streams, lines 359-364: the
\* manager has returned, the handler answers 200 with the JSON text.  An
\* exception of the manager leaves the handler like the ValueError above.
dashboard_respond ==
    /\ Pending
    /\ pc[Handler] = "idle"
    /\ resp' = IF ret[Handler].names # -1
               THEN [resp EXCEPT !.error = ret[Handler].status]
               ELSE Response(200, "application/json",
                             JsonDumpsResult(arg[Handler].op, ret[Handler]))
    /\ UNCHANGED <<mvars, dashboard, dsrv, svars>>

\* BaseHTTPRequestHandler answers 501 to a method for which the handler
\* class defines no do_<method>; DashboardHandler defines do_GET and do_POST.
dashboard_unsupported_method(method) ==
    /\ Accepting
    /\ method \notin {"GET", "POST"}
    /\ resp' = Response(501, "text/html", <<"Unsupported method">>)
    /\ UNCHANGED <<mvars, dashboard, dsrv, svars>>

\* The tool thread starts and stops streams and the dashboard; the
\* dashboard's thread serves requests and runs the manager calls they make.
\* The tool calls give camera i the port BasePort + i and the dashboard its
\* default port.
NextDash ==
    \/ \E i \in Cameras : start_stream(1, i, BasePort + i)
    \/ \E t \in Callers : start_stream_port(t)
    \/ \E t \in Callers : StreamServer_new(t)
    \/ \E t \in Callers : StreamServer_start(t)
    \/ \E t \in Callers : StreamServer_start_check(t)
    \/ \E t \in Callers : start_stream_register(t)
    \/ \E i \in Cameras : stop_stream(1, i)
    \/ \E t \in Callers : stop_stream_pop(t)
    \/ \E t \in Callers : StreamServer_stop(t)
    \/ \E t \in Callers : StreamServer_stop_wait(t)
    \/ \E t \in Callers : stop_all_next(t)
    \/ \E s \in Ports : capture_loop_open(s)
    \/ \E s \in Ports : capture_loop_exit(s)
    \/ \E s \in Ports : serve_forever_exit(s)
    \/ \E s \in Ports : reclaim(s)
    \/ start_dashboard(1, DashBasePort)
    \/ stop_dashboard(1)
    \/ stop_dashboard_return(1)
    \/ dashboard_serve_forever_end(DashBasePort)
    \/ \E path \in DashPaths : dashboard_do_GET(path)
    \/ \E path \in DashPaths : dashboard_do_POST(path)
    \/ dashboard_respond
    \/ \E method \in Methods : dashboard_unsupported_method(method)

InitDash ==
    /\ streams = <<>>
    /\ servers = [s \in Ports |-> NoServer]
    /\ pc = [t \in Callers |-> "idle"]
    /\ arg = [t \in Callers |-> NoArg]
    /\ loc = [t \in Callers |-> NoLoc]
    /\ pre = [t \in Callers |-> <<>>]
    /\ ret = [t \in Callers |-> NoRet]
    /\ budget = [t \in Callers |-> IF t = Handler THEN MaxDashPosts ELSE MaxDashCalls]
    /\ InitStreamServer
    /\ InitDashboard

SpecDash == InitDash /\ [][NextDash]_vars

\* Any sequence of start_dashboard and stop_dashboard calls on any ports,
\* with GET requests to the dashboard in between; no stream is started.
NextDashboard ==
    \/ \E p \in DashPorts : start_dashboard(1, p)
    \/ stop_dashboard(1)
    \/ stop_dashboard_return(1)
    \/ \E p \in DashPorts : dashboard_serve_forever_end(p)
    \/ \E path \in DashPaths : dashboard_do_GET(path)
    \/ \E method \in Methods : dashboard_unsupported_method(method)

SpecDashboard == Init /\ [][NextDashboard]_vars

\* ------------------------------------------------------------------ claims
Idle(t) == pc[t] = "idle"

\* Thread t, idle, takes a step: it begins a call (a call that changes
\* nothing the thread holds is a stuttering step).
Begins(t, op) ==
    /\ pc[t] = "idle"
    /\ <<pc[t], arg[t], pre[t], ret[t]>>' # <<pc[t], arg[t], pre[t], ret[t]>>
    /\ arg'[t].op = op

\* The last call of t was op and it has returned or raised.
Finished(t, op) == Idle(t) /\ arg[t].op = op /\ ret[t].status # "none"

\* C1: when camera i is registered on port p and camera j (j # i) is not
\* registered, start_stream(j, p) raises PortInUse naming i and the registry
\* is afterwards what it was before the call.
C1_PortInUse ==
    \A t \in Callers : Finished(t, "start_stream") =>
        \A k \in DOMAIN pre[t] :
            ( /\ pre[t][k].port = arg[t].port
              /\ pre[t][k].idx # arg[t].camera_index
              /\ arg[t].camera_index \notin Keys(pre[t]) )
            => /\ ret[t] = Raised("PortInUse", pre[t][k].idx)
               /\ Snapshot(streams) = pre[t]

C1_Witness ==
    \E t \in Callers :
        /\ Finished(t, "start_stream")
        /\ ret[t].status = "PortInUse"
        /\ \E k \in DOMAIN pre[t] :
              pre[t][k].port = arg[t].port /\ pre[t][k].idx # arg[t].camera_index

\* C2: start_stream(i, p2) for a registered camera i returns already_running
\* with the registered server's port and the URLs built from it, in one step
\* that changes neither the registry nor any server (no object is created,
\* no port bound, no thread started).
C2_Idempotent ==
    [][\A t \in Callers :
         (Begins(t, "start_stream") /\ arg'[t].camera_index \in Keys(streams)) =>
            LET i == arg'[t].camera_index
                p == servers[Get(streams, i)].port IN
            /\ pc'[t] = "idle"
            /\ ret'[t].status = "already_running"
            /\ ret'[t].camera_index = i
            /\ ret'[t].port = p
            /\ ret'[t].url = Url(p)
            /\ ret'[t].stream_url = StreamUrl(p)
            /\ streams' = streams
            /\ servers' = servers]_vars

C2_Witness ==
    \E t \in Callers :
        /\ Finished(t, "start_stream")
        /\ ret[t].status = "already_running"
        /\ ret[t].port # arg[t].port
        /\ arg[t].camera_index \in Keys(streams)
        /\ servers[Get(streams, arg[t].camera_index)].port = ret[t].port

\* C3: a start_stream call that raised (OpenFailed, PortInUse, or the bind
\* error) leaves the registry as it was when the call began: the same
\* indices in the same order, each with the same server and port.
C3_FailedStartKeepsRegistry ==
    \A t \in Callers :
        ( /\ Finished(t, "start_stream")
          /\ ret[t].status \in {"OpenFailed", "PortInUse", "OSError"} )
        => Snapshot(streams) = pre[t]

C3_Witness ==
    \E t \in Callers :
        /\ Finished(t, "start_stream")
        /\ ret[t].status = "OpenFailed"
        /\ ret[t].names = arg[t].camera_index
        /\ pre[t] # <<>>

\* C4: after start_stream(i, p) returned "started" (and before the next
\* call), list_streams() has exactly one entry for i, with port p and
\* streaming true.
C4_StartedIsListedStreaming ==
    \A t \in Callers :
        (Finished(t, "start_stream") /\ ret[t].status = "started") =>
            LET mine == {k \in DOMAIN StreamList :
                            StreamList[k].camera_index = arg[t].camera_index} IN
            /\ Cardinality(mine) = 1
            /\ \A k \in mine : StreamList[k].port = arg[t].port /\ StreamList[k].streaming

\* C5: after stop_stream(i) returned "stopped" (and before the next call),
\* i is not listed and no listening socket is bound to the port the stopped
\* server had.
C5_StoppedReleasesPort ==
    \A t \in Callers :
        (Finished(t, "stop_stream") /\ ret[t].status = "stopped") =>
            /\ \A k \in DOMAIN StreamList :
                  StreamList[k].camera_index # arg[t].camera_index
            /\ \A k \in DOMAIN pre[t] :
                  pre[t][k].idx = arg[t].camera_index => pre[t][k].port \notin BoundPorts

\* C6: after stop_all() returned (and before the next call) the list is
\* empty, every server that was registered has streaming false, and each of
\* their ports is free to be bound.
C6_StopAllReleasesAll ==
    \A t \in Callers :
        Finished(t, "stop_all") =>
            /\ StreamList = <<>>
            /\ \A k \in DOMAIN pre[t] :
                  /\ ~servers[pre[t][k].port].streaming
                  /\ pre[t][k].port \notin BoundPorts

\* C7: stop_stream(i) for an index that is not registered returns
\* not_running with camera_index i in one step, raises nothing and changes
\* neither the registry nor any server.
C7_StopUnregistered ==
    [][\A t \in Callers :
         (Begins(t, "stop_stream") /\ arg'[t].camera_index \notin Keys(streams)) =>
            /\ pc'[t] = "idle"
            /\ ret'[t] = NotRunning(arg'[t].camera_index)
            /\ streams' = streams
            /\ servers' = servers]_vars

C7_Witness ==
    \E t \in Callers :
        /\ Finished(t, "stop_stream")
        /\ ret[t].status = "not_running"
        /\ arg[t].camera_index \notin Keys(streams)
        /\ streams # <<>>

\* A caller is past the port check of start_stream and has not returned.
PastPortCheck(t) == pc[t] \in {"ss_new", "ss_start", "ss_grace", "ss_reg"}

\* C8: two concurrent start_stream calls for different cameras and the same
\* port are never both past the "is this port free" check.
C8_PortCheckAtomic ==
    \A t1, t2 \in Callers :
        ( /\ t1 # t2
          /\ PastPortCheck(t1) /\ PastPortCheck(t2)
          /\ arg[t1].port = arg[t2].port )
        => arg[t1].camera_index = arg[t2].camera_index

\* A server that was started and not stopped.
Live(p) == servers[p].sock /\ servers[p].streaming
Registered(p) == \E k \in DOMAIN streams : streams[k].srv = p

\* C9: at most one live StreamServer per camera index, and, when no call is
\* in progress, every live server is in the registry.
C9_OneLiveServerPerCamera ==
    /\ \A i \in Cameras :
          Cardinality({p \in Ports : Live(p) /\ servers[p].camera_index = i}) <= 1
    /\ (\A t \in Callers : Idle(t)) => \A p \in Ports : Live(p) => Registered(p)

\* C10: under any sequence of calls, no two registry entries have the same
\* port and every key is the camera_index of the server it maps to.
C10_RegistryInvariant ==
    /\ \A k1, k2 \in DOMAIN streams :
          k1 # k2 => servers[streams[k1].srv].port # servers[streams[k2].srv].port
    /\ \A k \in DOMAIN streams :
          /\ servers[streams[k].srv].sock
          /\ streams[k].idx = servers[streams[k].srv].camera_index

C10_Witness ==
    /\ Len(streams) >= 2
    /\ \E t \in Callers : Finished(t, "start_stream") /\ ret[t].status = "started"

\* The server runs: start() returned, stop() was not called, the capture
\* loop has the camera open and the flag is set.
Running == drv.pc = "started" /\ ss.streaming /\ ss.cap \in {"loop", "missed", "encoded", "locked"}

\* Client c is connected, reads, and waits for the listener to serve it.
Waiting(c) == clients[c].st = "queued" /\ clients[c].conn = "open"

\* C11: every client that is connected to a running server is eventually
\* served (it gets a handler, hence a response) while the other clients are
\* connected and read their streams, unless it leaves or the server stops
\* running first.
C11_EveryClientServed ==
    \A c \in Clients :
        (Waiting(c) /\ Running) ~>
            \/ ~Waiting(c)
            \/ ~Running
            \/ \E d \in Clients : clients[d].conn = "stalled"

\* C12: on one /stream connection the numbers of the frames delivered never
\* decrease: each part carries the frame of the previous part or a later
\* one.
C12_FramesInOrder ==
    [][\A c \in Clients :
         (clients[c].st = "handled" /\ clients'[c].st = "handled")
            => clients'[c].last >= clients[c].last]_vars

\* A client has received two parts or more, the last one with frame 2, and
\* the capture loop has stored a later frame since.
C12_Witness ==
    \E c \in Clients :
        /\ clients[c].st = "handled"
        /\ clients[c].parts >= 2
        /\ clients[c].last >= 2
        /\ ss.writes > clients[c].last

\* C13: every get_frame() returns None (0) only while no frame was stored,
\* and otherwise one of the frames the capture loop stored, whole; once a
\* frame is stored the slot is never None again.
C13_FrameBufferAtomic ==
    [][/\ (hnd.pc = "locked" /\ hnd'.pc # "locked") =>
            IF ss.writes = 0 THEN hnd'.frame_data = 0
            ELSE hnd'.frame_data \in 1 .. ss.writes
       /\ ss'.writes > 0 => ss'.frame \in 1 .. ss'.writes]_vars

\* get_frame() has returned a frame while the capture loop holds a newer
\* one that it is about to store or is storing.
C13_Witness ==
    /\ hnd.pc = "write"
    /\ hnd.frame_data >= 1
    /\ ss.cap \in {"encoded", "locked"}
    /\ ss.buffer > hnd.frame_data

\* C14: a stop() on a server that start() had started always returns.
C14_StopReturns ==
    (drv.pc = "shutdown" /\ drv.start = "returned") ~> (drv.pc = "stopped")

\* C15: a stop() on a server whose start() raised OpenFailed always returns.
C15_StopAfterFailedStartReturns ==
    (drv.pc = "shutdown" /\ drv.start = "OpenFailed") ~> (drv.pc = "stopped")

\* C16: when the camera of a server could not be opened, whatever the moment
\* at which the capture loop found it out, the listener of that server was
\* not spawned, the server is not registered, and the start_stream call that
\* created it raises OpenFailed (it is at the check after the grace period,
\* or has left).
C16_OpenFailureFailsStart ==
    \A p \in Ports :
        (servers[p].sock /\ servers[p].cap = "failed") =>
            /\ servers[p].httpd = "none"
            /\ ~Registered(p)
            /\ \A t \in Callers : loc[t].server = p => pc[t] = "ss_grace"

\* The handler's write finds its client gone.
ClientGone == hnd.pc = "write" /\ clients[hnd.client].conn \in {"closed", "reset"}

\* C19: the step in which a write of the serving loop finds its client gone
\* ends that handler normally (nothing is raised out of it) and changes
\* nothing else: not the server (flag, frame slot, capture loop, listener),
\* not its owner, not another client, not the registry nor any other
\* server.  A reset found while the response head is written leaves all of
\* these unchanged as well.
C19_DisconnectEndsOnlyThatLoop ==
    [][/\ (ClientGone /\ hnd' # hnd) =>
            /\ hnd' = NoHandler
            /\ clients'[hnd.client].st = "done"
            /\ ~clients'[hnd.client].raised
            /\ \A d \in Clients \ {hnd.client} : clients'[d] = clients[d]
            /\ ss' = ss /\ drv' = drv /\ mvars' = mvars
       /\ (hnd.pc = "do_GET" /\ clients[hnd.client].conn = "reset" /\ hnd' # hnd) =>
            /\ \A d \in Clients \ {hnd.client} : clients'[d] = clients[d]
            /\ ss' = ss /\ drv' = drv /\ mvars' = mvars]_vars

\* A /stream client that had received parts is gone, its handler has ended
\* without an exception, and the server streams on: the flag is set, the
\* capture loop runs, the slot holds a frame, the listener serves.
C19_Witness ==
    \E c \in Clients :
        /\ clients[c].st = "done" /\ clients[c].parts >= 1 /\ ~clients[c].raised
        /\ hnd = NoHandler
        /\ Running /\ ss.frame >= 1 /\ ss.httpd = "serving" /\ ~ss.shutReq
        /\ \E d \in Clients : Waiting(d)

\* The camera indexes named by the objects of a JSON text.
CameraIndexesIn(body) ==
    {body[k + 2] : k \in {j \in 1 .. Len(body) : body[j] = "camera_index"}}

IsStopRoute(path) ==
    Len(path) = 3 /\ path[1] = "api" /\ path[2] = "stop" /\ IsIntLiteral(path[3])

\* C18: every step that handles a request other than GET /, GET /api/streams,
\* POST /api/stop/<integer> and POST /api/stop-all answers 404 and leaves
\* the registry and every stream server as they were.
C18_OtherRequestsNotFound ==
    [][/\ \A path \in DashPaths \ {Root, ApiStreams} :
            dashboard_do_GET(path)
                => resp' = NotFound /\ UNCHANGED <<streams, servers>>
       /\ \A path \in {q \in DashPaths : q # ApiStopAll /\ ~IsStopRoute(q)} :
            dashboard_do_POST(path)
                => resp' = NotFound /\ UNCHANGED <<streams, servers>>
       /\ \A method \in Methods :
            dashboard_unsupported_method(method)
                => resp' = NotFound /\ UNCHANGED <<streams, servers>>]_vars

\* The ports on which a DashboardServer exists: it holds its listening
\* socket or runs its listener.
DashboardServers == {p \in DashPorts : dsrv[p].sock \/ dsrv[p].httpd = "serving"}

C21_GrabFailureNotFatal ==
    [][/\ (ss.cap = "loop" /\ ss'.cap = "missed")
            => /\ ss'.streaming = ss.streaming
               /\ ss'.frame = ss.frame /\ ss'.writes = ss.writes
       /\ (ss.cap = "missed" /\ ss'.cap # "missed")
            => ss'.cap = "loop" /\ ss'.frame = ss.frame
       /\ (ss.cap = "missed" /\ ss.streaming /\ ss'.cap = "missed")
            => ss'.streaming = ss.streaming \/ drv'.pc = "shutdown"]_vars

\* The loop of a started server is in a tick without frame: the flag is set
\* and the slot holds the frame stored before.
C21_Witness ==
    /\ ss.cap = "missed" /\ ss.streaming /\ ss.frame >= 1 /\ drv.pc = "started"

\* C22: the frame lock is held by the listener thread only inside
\* get_frame, never while the handler writes to its client or does anything
\* else; so whenever the capture loop has a frame to store while a handler
\* is at a write, blocked or not, the loop can take the lock.
C22_StalledClientDoesNotBlockCapture ==
    /\ ss.lock = "listener" <=> hnd.pc = "locked"
    /\ hnd.pc = "write" => ss.lock # "listener"
    /\ (hnd.pc = "write" /\ ss.cap = "encoded") => ENABLED capture_lock
    /\ ss.cap = "locked" => ENABLED capture_store

\* The handler is blocked in a write to a client that does not read, and
\* the capture loop has stored a newer frame than the one being written.
C22_Witness ==
    /\ hnd.pc = "write"
    /\ clients[hnd.client].conn = "stalled"
    /\ hnd.frame_data >= 1
    /\ ss.frame > hnd.frame_data

\* C23: a capture loop that has released its camera stays released and
\* stores no frame any more, and no frame is stored once stop() has
\* returned.
C23_NoWriteAfterStop ==
    [][/\ ss.cap = "released"
            => ss'.cap = "released" /\ ss'.writes = ss.writes /\ ss'.frame = ss.frame
       /\ drv.pc = "stopped"
            => ss'.writes = ss.writes /\ ss'.frame = ss.frame]_vars

\* The capture loop has opened its camera and has not released it.
CameraOpened == ss.cap \in {"loop", "missed", "encoded", "locked"}

\* C24: after every step, a set streaming flag means that the capture loop
\* has opened its camera; the flag becomes set only with an opened camera,
\* and a set flag is cleared only by stop() or by a failed open.
C24_FlagSetOnlyAfterOpen ==
    [][/\ ss'.streaming => CameraOpened'
       /\ (~ss.streaming /\ ss'.streaming) => CameraOpened'
       /\ (ss.streaming /\ ~ss'.streaming)
            => drv'.stop = "called" \/ ss'.cap = "failed"]_vars

\* A whole part of the MJPEG body that carries frame f.
WholePart(f) ==
    <<"--frame", "CRLF", "Content-Type: image/jpeg", "CRLF", "CRLF", ToString(f), "CRLF">>

IsPrefix(a, b) == Len(a) <= Len(b) /\ a = SubSeq(b, 1, Len(a))

\* C25: what a /stream client has received of the part written last is at
\* every moment the beginning of a whole part (boundary line, content-type
\* header, blank line, the bytes of one frame that was stored, CRLF); when
\* the handler is back at its loop test the part is whole and carries the
\* frame that get_frame returned; a write only adds to the part or begins
\* the next one after a whole one; and a get_frame that finds the slot
\* empty writes nothing and goes back to the loop test.
C25_WholeParts ==
    [][/\ \A c \in Clients :
            \/ clients'[c].body = <<>>
            \/ \E f \in 1 .. ss'.writes : IsPrefix(clients'[c].body, WholePart(f))
       /\ (hnd.pc = "write" /\ hnd'.pc = "loop")
            => clients'[hnd.client].body = WholePart(hnd.frame_data)
       /\ (hnd.pc = "write" /\ hnd'.pc = "write"
                /\ clients'[hnd.client].body # clients[hnd.client].body)
            => LET old == clients[hnd.client].body
                   new == clients'[hnd.client].body IN
               \/ Len(new) > Len(old) /\ IsPrefix(old, new)
               \/ old = WholePart(clients[hnd.client].last) /\ new = <<"--frame", "CRLF">>
               \/ old = <<>> /\ new = <<"--frame", "CRLF">>
       /\ (hnd.pc = "locked" /\ hnd' # hnd /\ ss.frame = 0)
            => hnd'.pc = "loop" /\ clients'[hnd.client].body = <<>>
                /\ clients'[hnd.client].parts = 0]_vars

\* A client has received a whole part and, after it, the next part up to
\* the bytes of its frame, which is a newer frame.
C25_Witness ==
    /\ hnd.pc = "write" /\ hnd.w = 3
    /\ clients[hnd.client].parts >= 1
    /\ hnd.frame_data > clients[hnd.client].last
    /\ clients[hnd.client].body
            = <<"--frame", "CRLF", "Content-Type: image/jpeg", "CRLF", "CRLF",
                ToString(hnd.frame_data)>>

\* Caller t is inside StreamServer.stop for the server it popped.
Stopping(t) == pc[t] \in {"st_stop", "st_wait"}

\* C26: with stop calls running concurrently, every stop_stream call ends
\* with stopped or not_running and every stop_all call returns normally
\* (none raises), and no server is being stopped by two calls.
C26_RemovalsSerialized ==
    /\ \A t \in Callers :
            Finished(t, "stop_stream") => ret[t].status \in {"stopped", "not_running"}
    /\ \A t \in Callers :
            Finished(t, "stop_all") => ret[t].status = "returned"
    /\ \A t, u \in Callers :
            (t # u /\ Stopping(t) /\ Stopping(u)) => loc[t].server # loc[u].server

\* The registry content that a list of stream dictionaries shows.
ContentOf(list) == [k \in DOMAIN list |-> [idx |-> list[k].camera_index, srv |-> list[k].port]]

\* C27: no step of list_streams changes the registry or a server; and a
\* list_streams call that runs beside start_stream and stop_stream calls
\* ends by returning a list (it does not raise) that shows the content the
\* registry had at one moment of the call.
C27_ListIsSnapshot ==
    [][\A t \in Callers :
        /\ (list_streams_iter(t) \/ list_streams_next(t)) => UNCHANGED <<streams, servers>>
        /\ (pc[t] = "ls_next" /\ pc'[t] = "idle")
            => /\ ret'[t].status = "listed"
               /\ ContentOf(ret'[t].list) \in loc[t].hist]_vars

\* C28: constructing StreamManager() again leaves the registry as it was,
\* so a stream that was listed before is listed after, and afterwards every
\* server that serves is still registered, hence stoppable by stop_stream.
C28_ManagerInitializedOnce ==
    [][\A t \in Callers :
        StreamManager__init__(t)
            => /\ streams' = streams
               /\ \A p \in Ports : Registered(p) => Registered(p)']_vars

\* C29: after a start_stream(i, p) call has failed with OpenFailed (and
\* before the next call), no listening socket is bound to port p and no
\* capture thread runs for p, so that a start_stream on p finds the port
\* free.
C29_FailedStartReleasesPort ==
    \A t \in Callers :
        (Finished(t, "start_stream") /\ ret[t].status = "OpenFailed")
            => /\ arg[t].port \notin BoundPorts
               /\ servers[arg[t].port].cap \notin {"opening", "running"}

\* The listener thread is inside the serving loop of a /stream request.
Serving == hnd.pc \in {"loop", "get_frame", "locked", "write"}

\* C30: when stop() was called while a /stream client that keeps reading is
\* being served, eventually the serving loop has ended, serve_forever has
\* ended and stop() has returned.
C30_StopEndsClientResponses ==
    (drv.pc = "shutdown" /\ Serving)
        ~> (hnd = NoHandler /\ ss.httpd = "shut" /\ drv.pc = "stopped")

\* stop() was called and waits while a client that has received parts is
\* being served, and the flag is cleared.
C30_Witness ==
    /\ drv.pc = "shutdown" /\ Serving /\ ~ss.streaming
    /\ clients[hnd.client].conn = "open" /\ clients[hnd.client].parts >= 1

====
